---- MODULE Spec2Model ----
(***************************************************************************)
(* Inventory transaction engine of warehouse-web: the Express handlers of  *)
(* backend/src/index.js (production, purchases, sales, inventory summary)  *)
(* over the Prisma store (inventory = balance rows, inventoryTx = ledger), *)
(* started from the state the seed script leaves.  Every `await` of a      *)
(* handler that touches the store is one step; reads of the catalog, which *)
(* nothing changes after the seed, are folded into the step they precede.  *)
(* Quantities are integers: kg/L ratios and seed stock are scaled.         *)
(***************************************************************************)
EXTENDS Integers, Sequences, FiniteSets, TLC

VARIABLES
    warehouses,   \* codes of the warehouse rows
    products,     \* product rows: code -> type
    inv,          \* inventory rows: <<warehouse, product>> -> qty
    ledger,       \* inventoryTx rows in insertion order
    pc,           \* per request slot: the handler's position
    req,          \* per request slot: the parsed request body
    idx,          \* per request slot: loop index (formula row / purchase item)
    seen,         \* per request slot: `avail` read for each formula row checked
    availPack,    \* per request slot: sales' `availPack`
    consumed,     \* per request slot: production's `consumed` list
    results,      \* per request slot: the alert evaluator's `results` list
    pend,         \* per request slot: applyTx between its create and its upsert
    resp,         \* per request slot: the response body sent
    serial,       \* TRUE when requests are issued one at a time
    snap,         \* serial runs: the store as the request in flight found it
    nreq          \* requests issued so far

vars == <<warehouses, products, inv, ledger, pc, req, idx, seen, availPack,
          consumed, results, pend, resp, serial, snap, nreq>>

(***************************************************************************)
(* Bounds of the model.                                                    *)
(***************************************************************************)
MaxRequests == 2     \* requests issued in one run
MaxCount == 2        \* largest `count` of a production or sale
MaxItems == 2        \* longest purchase item list
SeedRawQty == 30     \* seeded kg of each raw material (10000, scaled)
SeedGallonQty == 1   \* seeded count of each empty gallon (2000, scaled)

Procs == {1, 2}

(***************************************************************************)
(* Catalog written by the seed script.                                     *)
(***************************************************************************)
RAW_WH == "RAW_WH"
GAL_WH == "GAL_WH"
FG_WH == "FG_WH"
SeedWarehouses == {RAW_WH, FG_WH, GAL_WH}

GallonSizes == {5, 10, 20}
RawCodes == {"P", "S"}
SeedFamilies == {"TP"}
\* product codes a request may name: a seeded family and one that is no row
FamilyCodes == {"TP", "ZZ"}
\* the same codes in the order localeCompare sorts them
FamilyOrder == <<"TP", "ZZ">>

GallonCode(gallonSize) == "GALLON_" \o ToString(gallonSize)
PackCode(productCode, gallonSize) == productCode \o "_PACK_" \o ToString(gallonSize)
LitersCode(productCode) == productCode \o "_LITERS"

GallonCodes == {GallonCode(s) : s \in GallonSizes}
PackCodes == {PackCode(f, s) : f \in SeedFamilies, s \in GallonSizes}
LitersCodes == {LitersCode(f) : f \in SeedFamilies}

SeedProducts ==
    [c \in RawCodes \cup GallonCodes \cup PackCodes \cup LitersCodes |->
        IF c \in RawCodes THEN "RAW"
        ELSE IF c \in GallonCodes THEN "GALLON"
        ELSE IF c \in PackCodes THEN "PRODUCT_PACK"
        ELSE "PRODUCT_LIQUID"]

\* formulaPerLiter rows of a product code, in row order (kg per liter, scaled)
Formula(productCode) ==
    IF productCode = "TP"
    THEN << [rawCode |-> "P", kgPerLiter |-> 2],
            [rawCode |-> "S", kgPerLiter |-> 1] >>
    ELSE << >>

\* alertRule rows in the order the seed inserts them; each minQty is the
\* quantity the seed stocks the pair with
AlertRules ==
    << [warehouseCode |-> RAW_WH, productCode |-> "S", minQty |-> SeedRawQty],
       [warehouseCode |-> RAW_WH, productCode |-> "P", minQty |-> SeedRawQty],
       [warehouseCode |-> GAL_WH, productCode |-> GallonCode(5), minQty |-> SeedGallonQty],
       [warehouseCode |-> GAL_WH, productCode |-> GallonCode(10), minQty |-> SeedGallonQty],
       [warehouseCode |-> GAL_WH, productCode |-> GallonCode(20), minQty |-> SeedGallonQty] >>

\* the unit column of a product row
Unit(type) ==
    IF type = "RAW" THEN "kg" ELSE IF type = "PRODUCT_LIQUID" THEN "liter" ELSE "count"

\* setInv: the seed writes balance rows directly, with no inventoryTx row
SeedInv ==
    [k \in ({RAW_WH} \X RawCodes) \cup ({GAL_WH} \X GallonCodes) |->
        IF k[1] = RAW_WH THEN SeedRawQty ELSE SeedGallonQty]

(***************************************************************************)
(* Store helpers.                                                          *)
(***************************************************************************)
\* getInv: the qty of the row, 0 when there is no row
getInv(i, warehouseId, productId) ==
    IF <<warehouseId, productId>> \in DOMAIN i THEN i[<<warehouseId, productId>>] ELSE 0

\* the balance set to the delta instead of incremented by it
upsertInv_m(i, warehouseId, productId, qty) ==
    IF <<warehouseId, productId>> \in DOMAIN i
    THEN [i EXCEPT ![<<warehouseId, productId>>] = qty]
    ELSE i @@ (<<warehouseId, productId>> :> qty)

\* prisma.inventory.upsert of applyTx: increment the row, or create it at qty
upsertInv(i, warehouseId, productId, qty) ==
    IF <<warehouseId, productId>> \in DOMAIN i
    THEN [i EXCEPT ![<<warehouseId, productId>>] = @ + qty]
    ELSE i @@ (<<warehouseId, productId>> :> qty)

\* the data of prisma.inventoryTx.create
TxRow(txType, warehouseId, productId, qty) ==
    [txType |-> txType, warehouseId |-> warehouseId, productId |-> productId, qty |-> qty]

NoTx == TxRow("NONE", "NONE", "NONE", 0)

\* liters taken for the count alone
Liters_m(count, gallonSize) == count

Liters(count, gallonSize) == count * gallonSize

\* the ratio added to the liters
NeedKg_m(kgPerLiter, liters) == kgPerLiter + liters

NeedKg(kgPerLiter, liters) == kgPerLiter * liters

\* the comparison the wrong way round
Short_m(avail, need) == need < avail

\* the shortage tests `avail < need` of production and sales
Short(avail, need) == avail < need

(***************************************************************************)
(* Requests and responses.                                                 *)
(***************************************************************************)
Req(op, productCode, gallonSize, count, items) ==
    [op |-> op, productCode |-> productCode, gallonSize |-> gallonSize,
     count |-> count, items |-> items]

NoReq == Req("none", "", 0, 0, << >>)

\* purchase items: of a raw material, of an empty gallon, of a packaged product
Items == {[code |-> "P", qty |-> 10],
          [code |-> GallonCode(5), qty |-> 1],
          [code |-> PackCode("TP", 5), qty |-> 1]}
ItemLists == UNION {[1..n -> Items] : n \in 1..MaxItems}

\* the bodies the zod schemas of the handlers accept
Requests ==
    {Req(op, f, s, c, << >>) : op \in {"production", "sales"},
                               f \in FamilyCodes, s \in GallonSizes, c \in 1..MaxCount}
    \cup {Req("purchases", "", 0, 0, its) : its \in ItemLists}
    \cup {Req("summary", "", 0, 0, << >>), Req("alerts", "", 0, 0, << >>)}

NoSummary == [rawKg |-> << >>, gallonsEmpty |-> << >>, products |-> << >>]

Resp(status, error, need, available, liters, cons, summary) ==
    [status |-> status, error |-> error, need |-> need, available |-> available,
     liters |-> liters, consumed |-> cons, summary |-> summary, alerts |-> << >>]

NoResp == Resp(0, "", 0, 0, 0, << >>, NoSummary)

\* res.status(400).json({error, details})
ErrResp(error, need, available) == Resp(400, error, need, available, 0, << >>, NoSummary)

\* an exception leaves the handler: no response is sent; error names the exception
ThrowResp(error) == Resp(0, error, 0, 0, 0, << >>, NoSummary)

(***************************************************************************)
(* The awaited steps of each handler, in program order.                    *)
(***************************************************************************)
\* the raw materials consumed before the gallon check is made
ProdOrder_m == <<"p_load", "p_chkRaw", "p_raw", "p_chkGal", "p_gal", "p_pack", "p_lit">>

\* the liters entry written before the pack entry
ProdOrder_m2 == <<"p_load", "p_chkRaw", "p_chkGal", "p_raw", "p_gal", "p_lit", "p_pack">>

ProdOrder == <<"p_load", "p_chkRaw", "p_chkGal", "p_raw", "p_gal", "p_pack", "p_lit">>
PurchaseOrder == <<"u_load", "u_item">>
SaleOrder == <<"s_load", "s_readPack", "s_readLit", "s_pack", "s_lit">>
SummaryOrder == <<"m_read">>
AlertsOrder == <<"a_load", "a_rule">>

Order(op) ==
    CASE op = "production" -> ProdOrder
      [] op = "purchases" -> PurchaseOrder
      [] op = "sales" -> SaleOrder
      [] op = "alerts" -> AlertsOrder
      [] OTHER -> SummaryOrder

Pos(order, label) == CHOOSE k \in 1..Len(order) : order[k] = label

\* the step that follows `label`; past the last one the handler responds
After(order, label) ==
    IF Pos(order, label) = Len(order) THEN "done" ELSE order[Pos(order, label) + 1]

Ended == {"done", "rejected", "threw"}

store == <<inv, ledger>>
catalog == <<warehouses, products>>
locals == <<idx, seen, availPack, consumed, results, pend>>
env == <<serial, snap, nreq>>

Goto(p, label) == pc' = [pc EXCEPT ![p] = label]

Reject(p, error, need, available) ==
    /\ Goto(p, "rejected")
    /\ resp' = [resp EXCEPT ![p] = ErrResp(error, need, available)]

Throw(p, error) ==
    /\ Goto(p, "threw")
    /\ resp' = [resp EXCEPT ![p] = ThrowResp(error)]

\* go on to the next step of the handler, its loop index back at the first row
Proceed(p) ==
    /\ Goto(p, After(Order(req[p].op), pc[p]))
    /\ idx' = [idx EXCEPT ![p] = 1]

\* the rows of function f whose key is in keys
Restrict(f, keys) == [k \in DOMAIN f \cap keys |-> f[k]]

\* no request in flight, over a catalog and a store
InitStore(oneAtATime, whs, prods, i, l) ==
    /\ warehouses = whs
    /\ products = prods
    /\ inv = i
    /\ ledger = l
    /\ pc = [p \in Procs |-> "idle"]
    /\ req = [p \in Procs |-> NoReq]
    /\ idx = [p \in Procs |-> 1]
    /\ seen = [p \in Procs |-> << >>]
    /\ availPack = [p \in Procs |-> 0]
    /\ consumed = [p \in Procs |-> << >>]
    /\ results = [p \in Procs |-> << >>]
    /\ pend = [p \in Procs |-> NoTx]
    /\ resp = [p \in Procs |-> NoResp]
    /\ serial = oneAtATime
    /\ snap = [inv |-> i, ledger |-> l]
    /\ nreq = 0

\* no request in flight, over a catalog and the balance rows seeded for it
InitWith(oneAtATime, whs, prods) ==
    InitStore(oneAtATime, whs, prods, Restrict(SeedInv, whs \X DOMAIN prods), << >>)

\* the state the seed script leaves
Init == InitWith(FALSE, SeedWarehouses, SeedProducts)

\* a request arrives and passes its schema
Start(p, r) ==
    /\ pc[p] = "idle"
    /\ nreq < MaxRequests
    /\ serial => \A q \in Procs : pc[q] = "idle"
    /\ req' = [req EXCEPT ![p] = r]
    /\ Goto(p, Order(r.op)[1])
    /\ nreq' = nreq + 1
    /\ UNCHANGED <<catalog, store, locals, resp, serial, snap>>

\* the client is done with the request; the slot is free again
Finish(p) ==
    /\ pc[p] \in Ended
    /\ Goto(p, "idle")
    /\ req' = [req EXCEPT ![p] = NoReq]
    /\ idx' = [idx EXCEPT ![p] = 1]
    /\ seen' = [seen EXCEPT ![p] = << >>]
    /\ availPack' = [availPack EXCEPT ![p] = 0]
    /\ consumed' = [consumed EXCEPT ![p] = << >>]
    /\ results' = [results EXCEPT ![p] = << >>]
    /\ resp' = [resp EXCEPT ![p] = NoResp]
    /\ snap' = IF serial THEN [inv |-> inv, ledger |-> ledger] ELSE snap
    /\ UNCHANGED <<catalog, store, pend, serial, nreq>>

(***************************************************************************)
(* POST /production                                                        *)
(***************************************************************************)
ProdLiters(p) == Liters(req[p].count, req[p].gallonSize)
ProdRow(p) == Formula(req[p].productCode)[idx[p]]

\* the three getWarehouseId calls and the formula query
ProdLoad(p) ==
    /\ pc[p] = "p_load"
    /\ IF ~({RAW_WH, GAL_WH, FG_WH} \subseteq warehouses)
       THEN Throw(p, "UnknownWarehouse") /\ UNCHANGED idx
       ELSE IF Len(Formula(req[p].productCode)) = 0
            THEN Reject(p, "FormulaNotDefined", 0, 0) /\ UNCHANGED idx
            ELSE Proceed(p) /\ UNCHANGED resp
    /\ UNCHANGED <<catalog, store, req, seen, availPack, consumed, results, pend, env>>

\* one turn of the raw-material check loop
ProdCheckRaw(p) ==
    /\ pc[p] = "p_chkRaw"
    /\ LET f == ProdRow(p)
           needKg == NeedKg(f.kgPerLiter, ProdLiters(p))
           avail == getInv(inv, RAW_WH, f.rawCode)
       IN  IF f.rawCode \notin DOMAIN products
           THEN Throw(p, "UnknownProduct") /\ UNCHANGED <<idx, seen>>
           ELSE IF Short(avail, needKg)
                THEN /\ Reject(p, "InsufficientRawMaterial", needKg, avail)
                     /\ UNCHANGED <<idx, seen>>
                ELSE /\ seen' = [seen EXCEPT ![p] = Append(@, avail)]
                     /\ IF idx[p] < Len(Formula(req[p].productCode))
                        THEN idx' = [idx EXCEPT ![p] = @ + 1] /\ UNCHANGED pc
                        ELSE Proceed(p)
                     /\ UNCHANGED resp
    /\ UNCHANGED <<catalog, store, req, availPack, consumed, results, pend, env>>

\* the empty-gallon check
ProdCheckGallon(p) ==
    /\ pc[p] = "p_chkGal"
    /\ LET code == GallonCode(req[p].gallonSize)
           availG == getInv(inv, GAL_WH, code)
       IN  IF code \notin DOMAIN products
           THEN Throw(p, "UnknownProduct") /\ UNCHANGED idx
           ELSE IF Short(availG, req[p].count)
                THEN /\ Reject(p, "InsufficientContainers", req[p].count, availG)
                     /\ UNCHANGED idx
                ELSE Proceed(p) /\ UNCHANGED resp
    /\ UNCHANGED <<catalog, store, req, seen, availPack, consumed, results, pend, env>>

\* the entry put at the head of the ledger
Create_m(p, tx) ==
    /\ ledger' = <<tx>> \o ledger
    /\ pend' = [pend EXCEPT ![p] = tx]
    /\ UNCHANGED <<inv, pc, idx, resp>>

\* applyTx, first await: the inventoryTx row is created
Create(p, tx) ==
    /\ ledger' = Append(ledger, tx)
    /\ pend' = [pend EXCEPT ![p] = tx]
    /\ UNCHANGED <<inv, pc, idx, resp>>

\* one turn of the raw-material consumption loop, up to applyTx's create
ProdConsumeRaw(p) ==
    /\ pc[p] = "p_raw" /\ pend[p] = NoTx
    /\ LET f == ProdRow(p)
           needKg == NeedKg(f.kgPerLiter, ProdLiters(p))
       IN  IF f.rawCode \notin DOMAIN products
           THEN Throw(p, "UnknownProduct") /\ UNCHANGED <<store, idx, pend>>
           ELSE Create(p, TxRow("PRODUCTION", RAW_WH, f.rawCode, -needKg))
    /\ UNCHANGED <<catalog, req, seen, availPack, consumed, results, env>>

ProdConsumeGallon(p) ==
    /\ pc[p] = "p_gal" /\ pend[p] = NoTx
    /\ Create(p, TxRow("PRODUCTION", GAL_WH, GallonCode(req[p].gallonSize), -req[p].count))
    /\ UNCHANGED <<catalog, req, seen, availPack, consumed, results, env>>

\* the two getProductByCode calls for the finished goods, then the pack entry
ProdAddPack(p) ==
    /\ pc[p] = "p_pack" /\ pend[p] = NoTx
    /\ LET pack == PackCode(req[p].productCode, req[p].gallonSize)
           litersProd == LitersCode(req[p].productCode)
       IN  IF pack \notin DOMAIN products \/ litersProd \notin DOMAIN products
           THEN Throw(p, "UnknownProduct") /\ UNCHANGED <<store, idx, pend>>
           ELSE Create(p, TxRow("PRODUCTION", FG_WH, pack, req[p].count))
    /\ UNCHANGED <<catalog, req, seen, availPack, consumed, results, env>>

ProdAddLiters(p) ==
    /\ pc[p] = "p_lit" /\ pend[p] = NoTx
    /\ Create(p, TxRow("PRODUCTION", FG_WH, LitersCode(req[p].productCode), ProdLiters(p)))
    /\ UNCHANGED <<catalog, req, seen, availPack, consumed, results, env>>

(***************************************************************************)
(* POST /purchases                                                         *)
(***************************************************************************)
PurchaseLoad(p) ==
    /\ pc[p] = "u_load"
    /\ IF ~({RAW_WH, GAL_WH} \subseteq warehouses)
       THEN Throw(p, "UnknownWarehouse") /\ UNCHANGED idx
       ELSE Proceed(p) /\ UNCHANGED resp
    /\ UNCHANGED <<catalog, store, req, seen, availPack, consumed, results, pend, env>>

\* raw materials sent to the container warehouse
Route_m(type) ==
    IF type = "RAW" THEN GAL_WH ELSE IF type = "GALLON" THEN GAL_WH ELSE "null"

\* the warehouse a purchased product goes to; "null" when it may not be bought
Route(type) ==
    IF type = "RAW" THEN RAW_WH ELSE IF type = "GALLON" THEN GAL_WH ELSE "null"

\* one turn of the item loop, up to applyTx's create
PurchaseItem(p) ==
    /\ pc[p] = "u_item" /\ pend[p] = NoTx
    /\ LET it == req[p].items[idx[p]]
       IN  IF it.code \notin DOMAIN products
           THEN Throw(p, "UnknownProduct") /\ UNCHANGED <<store, idx, pend>>
           ELSE IF Route(products[it.code]) = "null"
                THEN /\ Reject(p, "DisallowedPurchaseTarget", 0, 0)
                     /\ UNCHANGED <<store, idx, pend>>
                ELSE Create(p, TxRow("PURCHASE", Route(products[it.code]), it.code, it.qty))
    /\ UNCHANGED <<catalog, req, seen, availPack, consumed, results, env>>

(***************************************************************************)
(* POST /sales                                                             *)
(***************************************************************************)
\* liters taken as if every pack held 5 liters
SaleLiters_m(p) == Liters(req[p].count, 5)

SaleLiters(p) == Liters(req[p].count, req[p].gallonSize)

SaleLoad(p) ==
    /\ pc[p] = "s_load"
    /\ IF FG_WH \notin warehouses
       THEN Throw(p, "UnknownWarehouse") /\ UNCHANGED idx
       ELSE IF \/ PackCode(req[p].productCode, req[p].gallonSize) \notin DOMAIN products
               \/ LitersCode(req[p].productCode) \notin DOMAIN products
            THEN Throw(p, "UnknownProduct") /\ UNCHANGED idx
            ELSE Proceed(p) /\ UNCHANGED resp
    /\ UNCHANGED <<catalog, store, req, seen, availPack, consumed, results, pend, env>>

SaleReadPack(p) ==
    /\ pc[p] = "s_readPack"
    /\ availPack' = [availPack EXCEPT
           ![p] = getInv(inv, FG_WH, PackCode(req[p].productCode, req[p].gallonSize))]
    /\ Proceed(p)
    /\ UNCHANGED <<catalog, store, req, seen, consumed, results, pend, resp, env>>

\* the liters read, and the two checks that follow it
SaleReadLiters(p) ==
    /\ pc[p] = "s_readLit"
    /\ LET availLit == getInv(inv, FG_WH, LitersCode(req[p].productCode))
       IN  IF Short(availPack[p], req[p].count)
           THEN /\ Reject(p, "InsufficientPackagedStock", req[p].count, availPack[p])
                /\ UNCHANGED idx
           ELSE IF Short(availLit, SaleLiters(p))
                THEN /\ Reject(p, "InsufficientLiquidStock", SaleLiters(p), availLit)
                     /\ UNCHANGED idx
                ELSE Proceed(p) /\ UNCHANGED resp
    /\ UNCHANGED <<catalog, store, req, seen, availPack, consumed, results, pend, env>>

SaleTakePack(p) ==
    /\ pc[p] = "s_pack" /\ pend[p] = NoTx
    /\ Create(p, TxRow("SALE", FG_WH, PackCode(req[p].productCode, req[p].gallonSize),
                       -req[p].count))
    /\ UNCHANGED <<catalog, req, seen, availPack, consumed, results, env>>

SaleTakeLiters(p) ==
    /\ pc[p] = "s_lit" /\ pend[p] = NoTx
    /\ Create(p, TxRow("SALE", FG_WH, LitersCode(req[p].productCode), -SaleLiters(p)))
    /\ UNCHANGED <<catalog, req, seen, availPack, consumed, results, env>>

(***************************************************************************)
(* applyTx, second await, and what the handler does when applyTx returns.  *)
(***************************************************************************)
\* whether the loop the handler is in has another turn to make
LoopsAgain(p) ==
    \/ pc[p] = "p_raw" /\ idx[p] < Len(Formula(req[p].productCode))
    \/ pc[p] = "u_item" /\ idx[p] < Len(req[p].items)

\* res.json({ ok: true, ... })
OkResp(p, cons) ==
    IF req[p].op = "purchases"
    THEN Resp(200, "", 0, 0, 0, << >>, NoSummary)
    ELSE Resp(200, "", 0, 0, Liters(req[p].count, req[p].gallonSize), cons, NoSummary)

ApplyTxUpsert(p) ==
    /\ pend[p] # NoTx
    /\ inv' = upsertInv(inv, pend[p].warehouseId, pend[p].productId, pend[p].qty)
    /\ pend' = [pend EXCEPT ![p] = NoTx]
    /\ consumed' = IF pc[p] = "p_raw"
                   THEN [consumed EXCEPT ![p] =
                            Append(@, [raw |-> pend[p].productId, kg |-> -pend[p].qty])]
                   ELSE consumed
    /\ IF LoopsAgain(p)
       THEN idx' = [idx EXCEPT ![p] = @ + 1] /\ UNCHANGED <<pc, resp>>
       ELSE /\ Proceed(p)
            /\ resp' = IF After(Order(req[p].op), pc[p]) = "done"
                       THEN [resp EXCEPT ![p] = OkResp(p, consumed'[p])]
                       ELSE resp
    /\ UNCHANGED <<catalog, ledger, req, seen, availPack, results, env>>

(***************************************************************************)
(* GET /inventory/summary                                                  *)
(***************************************************************************)
\* the qty of an inventory row, 0 when the summary finds no such row
RowQty(i, warehouseId, code) ==
    IF <<warehouseId, code>> \in DOMAIN i THEN i[<<warehouseId, code>>] ELSE 0

\* the finished-goods codes the pattern ^([A-Z0-9]+)_(PACK_(5|10|20)|LITERS)$
\* matches with family f
FamilyRows(f) == {LitersCode(f)} \cup {PackCode(f, s) : s \in GallonSizes}

Summarize(i, prods) ==
    LET fams == SelectSeq(FamilyOrder,
                    LAMBDA f : \E c \in FamilyRows(f) : <<FG_WH, c>> \in DOMAIN i)
    IN  [rawKg |-> [c \in {c \in DOMAIN prods :
                              <<RAW_WH, c>> \in DOMAIN i /\ prods[c] = "RAW"} |->
                        i[<<RAW_WH, c>>]],
         gallonsEmpty |-> [s \in GallonSizes |->
                        IF GallonCode(s) \in DOMAIN prods /\ prods[GallonCode(s)] = "GALLON"
                        THEN RowQty(i, GAL_WH, GallonCode(s)) ELSE 0],
         products |-> [k \in 1..Len(fams) |->
                        [code |-> fams[k],
                         liters |-> RowQty(i, FG_WH, LitersCode(fams[k])),
                         pack |-> [s \in GallonSizes |->
                                      RowQty(i, FG_WH, PackCode(fams[k], s))]]]]

\* the summary creating the finished-goods rows it does not find
SummaryRead_m(p) ==
    /\ pc[p] = "m_read"
    /\ Goto(p, "done")
    /\ resp' = [resp EXCEPT
           ![p] = Resp(200, "", 0, 0, 0, << >>, Summarize(inv, products))]
    /\ inv' = [k \in DOMAIN inv \cup ({FG_WH} \X (PackCodes \cup LitersCodes)) |->
                  getInv(inv, k[1], k[2])]
    /\ UNCHANGED <<catalog, ledger, req, locals, env>>

SummaryRead(p) ==
    /\ pc[p] = "m_read"
    /\ IF ~({RAW_WH, GAL_WH, FG_WH} \subseteq warehouses)
       THEN Throw(p, "UnknownWarehouse")
       ELSE /\ Goto(p, "done")
            /\ resp' = [resp EXCEPT
                   ![p] = Resp(200, "", 0, 0, 0, << >>, Summarize(inv, products))]
    /\ UNCHANGED <<catalog, store, req, locals, env>>

(***************************************************************************)
(* GET /alerts/active                                                      *)
(***************************************************************************)
\* a balance equal to the minimum also reported
Breach_m(qty, minQty) == qty <= minQty

Breach(qty, minQty) == qty < minQty

\* prisma.alertRule.findMany
AlertsLoad(p) ==
    /\ pc[p] = "a_load"
    /\ Proceed(p)
    /\ UNCHANGED <<catalog, store, req, seen, availPack, consumed, results, pend, resp, env>>

\* one turn of the rule loop: the warehouse, the product, the balance row
AlertsRule(p) ==
    /\ pc[p] = "a_rule"
    /\ LET r == AlertRules[idx[p]]
           qty == getInv(inv, r.warehouseCode, r.productCode)
           rs == IF /\ r.warehouseCode \in warehouses
                    /\ r.productCode \in DOMAIN products
                    /\ Breach(qty, r.minQty)
                 THEN Append(results[p],
                             [warehouse |-> r.warehouseCode, product |-> r.productCode,
                              current |-> qty, min |-> r.minQty,
                              unit |-> Unit(products[r.productCode])])
                 ELSE results[p]
       IN  /\ results' = [results EXCEPT ![p] = rs]
           /\ IF idx[p] < Len(AlertRules)
              THEN idx' = [idx EXCEPT ![p] = @ + 1] /\ UNCHANGED <<pc, resp>>
              ELSE /\ Goto(p, "done")
                   /\ resp' = [resp EXCEPT ![p] = [NoResp EXCEPT !.status = 200, !.alerts = rs]]
                   /\ UNCHANGED idx
    /\ UNCHANGED <<catalog, store, req, seen, availPack, consumed, pend, env>>

(***************************************************************************)
(* Specifications.                                                         *)
(***************************************************************************)
Next ==
    \E p \in Procs :
        \/ \E r \in Requests : Start(p, r)
        \/ ProdLoad(p)
        \/ ProdCheckRaw(p)
        \/ ProdCheckGallon(p)
        \/ ProdConsumeRaw(p)
        \/ ProdConsumeGallon(p)
        \/ ProdAddPack(p)
        \/ ProdAddLiters(p)
        \/ PurchaseLoad(p)
        \/ PurchaseItem(p)
        \/ SaleLoad(p)
        \/ SaleReadPack(p)
        \/ SaleReadLiters(p)
        \/ SaleTakePack(p)
        \/ SaleTakeLiters(p)
        \/ ApplyTxUpsert(p)
        \/ SummaryRead(p)
        \/ AlertsLoad(p)
        \/ AlertsRule(p)
        \/ Finish(p)

\* requests overlap: the awaited steps of the handlers interleave freely
Spec == Init /\ [][Next]_vars

\* requests are issued one at a time
InitSerial == InitWith(TRUE, SeedWarehouses, SeedProducts)

SpecSerial == InitSerial /\ [][Next]_vars

RECURSIVE ApplyAll(_, _)
\* the balance rows i after applyTx has run for each entry of l
ApplyAll(i, l) ==
    IF l = << >> THEN i
    ELSE ApplyAll(upsertInv(i, Head(l).warehouseId, Head(l).productId, Head(l).qty), Tail(l))

\* the entries POST /production {TP, size, 1} writes
Produced(size) ==
    << TxRow("PRODUCTION", RAW_WH, "P", -NeedKg(2, Liters(1, size))),
       TxRow("PRODUCTION", RAW_WH, "S", -NeedKg(1, Liters(1, size))),
       TxRow("PRODUCTION", GAL_WH, GallonCode(size), -1),
       TxRow("PRODUCTION", FG_WH, PackCode("TP", size), 1),
       TxRow("PRODUCTION", FG_WH, LitersCode("TP"), Liters(1, size)) >>

\* the ledger after one 5-liter and one 10-liter pack of TP have been produced
StockedLedger == Produced(5) \o Produced(10)

\* the store those two productions leave, no request in flight
InitStocked(oneAtATime) ==
    InitStore(oneAtATime, SeedWarehouses, SeedProducts, ApplyAll(SeedInv, StockedLedger),
              StockedLedger)

\* requests overlap
SpecStocked == InitStocked(FALSE) /\ [][Next]_vars

\* one request at a time
SpecStockedSerial == InitStocked(TRUE) /\ [][Next]_vars

\* catalogs in which a warehouse row or a product row of the seed is missing
Removable == {"S", GallonCode(5), PackCode("TP", 5), LitersCode("TP")}
Catalogs ==
    {[whs |-> SeedWarehouses \ w, prods |-> Restrict(SeedProducts, DOMAIN SeedProducts \ m)] :
        w \in {{}, {FG_WH}}, m \in {{}} \cup {{c} : c \in Removable}}

\* requests one at a time, over any of these catalogs
InitCatalog == \E cat \in Catalogs : InitWith(TRUE, cat.whs, cat.prods)

SpecCatalog == InitCatalog /\ [][Next]_vars

(***************************************************************************)
(* Vocabulary of the properties.                                           *)
(***************************************************************************)
Pairs == SeedWarehouses \X DOMAIN SeedProducts

RECURSIVE LedgerSum(_, _, _)
\* the sum of the deltas the entries of l hold for a (warehouse, product) pair
LedgerSum(l, w, c) ==
    IF l = << >> THEN 0
    ELSE (IF Head(l).warehouseId = w /\ Head(l).productId = c THEN Head(l).qty ELSE 0)
         + LedgerSum(Tail(l), w, c)

\* the store a serial request found, with the entries es appended and applied
StoreIs(es) ==
    /\ ledger = snap.ledger \o es
    /\ \A k \in Pairs \cup DOMAIN inv :
          getInv(inv, k[1], k[2]) = getInv(snap.inv, k[1], k[2]) + LedgerSum(es, k[1], k[2])

StoreUntouched == inv = snap.inv /\ ledger = snap.ledger

IsOp(p, op) == req[p].op = op

\* kg of raw material r per liter of family f, 0 when f has no row for r
KgPerLiter(f, r) ==
    IF \E k \in DOMAIN Formula(f) : Formula(f)[k].rawCode = r
    THEN Formula(f)[CHOOSE k \in DOMAIN Formula(f) : Formula(f)[k].rawCode = r].kgPerLiter
    ELSE 0

\* a production has appended and applied every raw-material entry of its own
RawCommitted(p) ==
    /\ IsOp(p, "production")
    /\ pc[p] \in {"p_gal", "p_pack", "p_lit", "done"}
    /\ Len(consumed[p]) = Len(Formula(req[p].productCode))

(***************************************************************************)
(* C1. Two overlapping productions that need the same raw material never   *)
(* both pass the availability check against one balance that covers either *)
(* need but not their sum, and both commit their consumption of it.        *)
(***************************************************************************)
C1_NoDoubleSpend ==
    \A p, q \in Procs : \A r \in RawCodes :
        LET F == Formula(req[p].productCode)
            G == Formula(req[q].productCode)
            needP == KgPerLiter(req[p].productCode, r) * req[p].count * req[p].gallonSize
            needQ == KgPerLiter(req[q].productCode, r) * req[q].count * req[q].gallonSize
        IN  (p # q /\ RawCommitted(p) /\ RawCommitted(q))
            => \A i \in DOMAIN F, j \in DOMAIN G :
                  (F[i].rawCode = r /\ G[j].rawCode = r /\ seen[p][i] = seen[q][j])
                  => needP + needQ <= seen[p][i]

(***************************************************************************)
(* C2. No reader sees some but not all balance updates of one production   *)
(* or sale: every family a summary response shows has its liters balance   *)
(* in step with its packaged counts (each production and sale moves count  *)
(* packs and count * size liters, from finished-goods balances of zero).   *)
(***************************************************************************)
C2_SummarySeesWholeOperations ==
    \A p \in Procs :
        (IsOp(p, "summary") /\ pc[p] = "done")
        => \A k \in DOMAIN resp[p].summary.products :
              LET o == resp[p].summary.products[k]
              IN  o.liters = 5 * o.pack[5] + 10 * o.pack[10] + 20 * o.pack[20]

(***************************************************************************)
(* C3. A purchase rejected with DisallowedPurchaseTarget has written no    *)
(* ledger entry and changed no balance, for any item of its list.          *)
(***************************************************************************)
C3_RejectedPurchaseWritesNothing ==
    \A p \in Procs :
        (IsOp(p, "purchases") /\ pc[p] = "rejected"
            /\ resp[p].error = "DisallowedPurchaseTarget")
        => StoreUntouched

(***************************************************************************)
(* C4. A production rejected at a pre-check (FormulaNotDefined,            *)
(* InsufficientRawMaterial, InsufficientContainers) and a sale rejected    *)
(* with InsufficientPackagedStock or InsufficientLiquidStock leave the     *)
(* ledger and every balance as the request found them.                     *)
(***************************************************************************)
C4_RejectionLeavesStore ==
    \A p \in Procs :
        /\ (IsOp(p, "production") /\ pc[p] = "rejected"
              /\ resp[p].error \in {"FormulaNotDefined", "InsufficientRawMaterial",
                                    "InsufficientContainers"})
           => StoreUntouched
        /\ (IsOp(p, "sales") /\ pc[p] = "rejected"
              /\ resp[p].error \in {"InsufficientPackagedStock", "InsufficientLiquidStock"})
           => StoreUntouched

\* a production is rejected for containers, its raw-material checks passed,
\* after an earlier request has written to the ledger
C4_Witness ==
    \E p \in Procs :
        /\ IsOp(p, "production") /\ pc[p] = "rejected"
        /\ resp[p].error = "InsufficientContainers"
        /\ Len(seen[p]) = 2
        /\ ledger # << >>

(***************************************************************************)
(* C5. With requests issued one at a time from non-negative balances,      *)
(* every (warehouse, product) balance is >= 0 in every state.              *)
(***************************************************************************)
C5_NoNegativeBalance == \A k \in DOMAIN inv : inv[k] >= 0

\* a production has gone through and used up the empty gallons of its size
C5_Witness ==
    \E p \in Procs :
        /\ IsOp(p, "production") /\ pc[p] = "done"
        /\ getInv(inv, GAL_WH, GallonCode(req[p].gallonSize)) = 0
        /\ getInv(inv, RAW_WH, "P") < SeedRawQty

(***************************************************************************)
(* C6. In every state every balance equals the sum of the ledger deltas of *)
(* its (warehouse, product) pair, 0 when the pair has none.                *)
(***************************************************************************)
C6_BalanceIsLedgerSum ==
    \A k \in Pairs \cup DOMAIN inv : getInv(inv, k[1], k[2]) = LedgerSum(ledger, k[1], k[2])

(***************************************************************************)
(* C7. Over any catalog, a production that ends in a failure, a catalog    *)
(* resolution failure included, has written no ledger entry and changed no *)
(* balance.                                                                *)
(***************************************************************************)
C7_FailedProductionWritesNothing ==
    \A p \in Procs :
        (IsOp(p, "production") /\ pc[p] \in {"rejected", "threw"}) => StoreUntouched

(***************************************************************************)
(* C8. A production that succeeds lowers the raw-warehouse balance of each *)
(* raw material r by exactly kgPerLiter(r) * count * containerSize (by 0   *)
(* when its family has no formula row for r) and reports exactly that kg   *)
(* for each formula row in `consumed`; one that is rejected leaves every   *)
(* raw balance alone.  Over a sequence of productions issued one at a time *)
(* the decrease is therefore the sum over the successful ones.             *)
(***************************************************************************)
C8_RawConservation ==
    \A p \in Procs :
        LET f == req[p].productCode
            n == req[p].count * req[p].gallonSize
        IN  /\ (IsOp(p, "production") /\ pc[p] = "done")
               => /\ \A r \in RawCodes :
                        getInv(inv, RAW_WH, r)
                            = getInv(snap.inv, RAW_WH, r) - KgPerLiter(f, r) * n
                  /\ resp[p].consumed
                        = [k \in DOMAIN Formula(f) |->
                              [raw |-> Formula(f)[k].rawCode,
                               kg |-> Formula(f)[k].kgPerLiter * n]]
            /\ (IsOp(p, "production") /\ pc[p] = "rejected")
               => \A r \in RawCodes : getInv(inv, RAW_WH, r) = getInv(snap.inv, RAW_WH, r)

\* a second production in a row has succeeded
C8_Witness ==
    \E p \in Procs :
        /\ IsOp(p, "production") /\ pc[p] = "done"
        /\ resp[p].consumed # << >>
        /\ snap.ledger # << >>
        /\ snap.ledger[1].txType = "PRODUCTION"

(***************************************************************************)
(* C9. A production {family, containerSize, count} that goes through has   *)
(* appended, in this order, one PRODUCTION entry per formula row with      *)
(* delta -(kgPerLiter * liters) in the raw warehouse, one with -count for  *)
(* GALLON_<containerSize> in the container warehouse, one with +count for  *)
(* <family>_PACK_<containerSize> and one with +liters for <family>_LITERS  *)
(* in finished goods, liters = count * containerSize, and has changed the  *)
(* balances of exactly these pairs by these deltas; while a pre-check is   *)
(* still to be made, or once one has failed, nothing has been committed.   *)
(***************************************************************************)
C9_Expected(p) ==
    LET f == req[p].productCode
        size == req[p].gallonSize
        count == req[p].count
        liters == count * size
    IN  [k \in DOMAIN Formula(f) |->
            TxRow("PRODUCTION", "RAW_WH", Formula(f)[k].rawCode,
                  -(Formula(f)[k].kgPerLiter * liters))]
        \o << TxRow("PRODUCTION", "GAL_WH", "GALLON_" \o ToString(size), -count),
              TxRow("PRODUCTION", "FG_WH", f \o "_PACK_" \o ToString(size), count),
              TxRow("PRODUCTION", "FG_WH", f \o "_LITERS", liters) >>

C9_ProductionEntries ==
    \A p \in Procs :
        /\ (IsOp(p, "production") /\ pc[p] = "done") => StoreIs(C9_Expected(p))
        /\ (IsOp(p, "production") /\ pc[p] \in {"p_load", "p_chkRaw", "p_chkGal", "rejected"})
           => StoreUntouched

\* a production of two 5-liter packs has gone through
C9_Witness ==
    \E p \in Procs :
        /\ IsOp(p, "production") /\ pc[p] = "done" /\ req[p].count = 2
        /\ Len(ledger) = Len(snap.ledger) + 5

(***************************************************************************)
(* C10. A sale {family, containerSize, count} of a family whose product    *)
(* rows exist succeeds if and only if, in finished goods, the balance of   *)
(* <family>_PACK_<containerSize> is >= count and that of <family>_LITERS   *)
(* is >= count * containerSize; on success it has appended exactly two     *)
(* SALE entries (packaged -count, then liquid -count * containerSize) in   *)
(* finished goods and changed no other balance; with the packaged balance  *)
(* below count it is rejected with InsufficientPackagedStock carrying the  *)
(* available and the needed quantity.                                      *)
(***************************************************************************)
C10_SaleOutcome ==
    \A p \in Procs :
        LET pack == req[p].productCode \o "_PACK_" \o ToString(req[p].gallonSize)
            lit == req[p].productCode \o "_LITERS"
            count == req[p].count
            liters == count * req[p].gallonSize
            hadPack == getInv(snap.inv, "FG_WH", pack)
            hadLit == getInv(snap.inv, "FG_WH", lit)
        IN  (IsOp(p, "sales") /\ {pack, lit} \subseteq DOMAIN products)
            => /\ pc[p] \in Ended
                  => /\ pc[p] # "threw"
                     /\ pc[p] = "done" <=> (hadPack >= count /\ hadLit >= liters)
               /\ pc[p] = "done"
                  => StoreIs(<< TxRow("SALE", "FG_WH", pack, -count),
                                TxRow("SALE", "FG_WH", lit, -liters) >>)
               /\ (pc[p] = "rejected" /\ hadPack < count)
                  => /\ resp[p].error = "InsufficientPackagedStock"
                     /\ resp[p].available = hadPack
                     /\ resp[p].need = count
                     /\ StoreUntouched

\* a sale has gone through
C10_SaleDone == \E p \in Procs : IsOp(p, "sales") /\ pc[p] = "done"

(***************************************************************************)
(* C11. With finished-goods balances starting at zero and only production, *)
(* sale and purchase requests writing, under every interleaving, no sale   *)
(* is rejected with InsufficientLiquidStock.                               *)
(***************************************************************************)
C11_NoLiquidShortage ==
    \A p \in Procs :
        ~(IsOp(p, "sales") /\ pc[p] = "rejected"
            /\ resp[p].error = "InsufficientLiquidStock")

(***************************************************************************)
(* C12. A purchase all of whose items name a raw material or an empty      *)
(* container goes through, and has then appended exactly one PURCHASE      *)
(* entry per item, in item order, with delta +qty, in the raw warehouse    *)
(* for a raw material and in the container warehouse for an empty          *)
(* container; each purchased balance has risen by the sum of the qty of    *)
(* the items naming it and every other balance is as it was.               *)
(***************************************************************************)
C12_Buyable(p) ==
    \A k \in DOMAIN req[p].items :
        /\ req[p].items[k].code \in DOMAIN products
        /\ products[req[p].items[k].code] \in {"RAW", "GALLON"}

C12_Expected(p) ==
    [k \in DOMAIN req[p].items |->
        TxRow("PURCHASE",
              IF products[req[p].items[k].code] = "RAW" THEN "RAW_WH" ELSE "GAL_WH",
              req[p].items[k].code, req[p].items[k].qty)]

C12_PurchaseEntries ==
    \A p \in Procs :
        IsOp(p, "purchases")
        => /\ (C12_Buyable(p) /\ pc[p] \in Ended) => pc[p] = "done"
           /\ pc[p] = "done" => (C12_Buyable(p) /\ StoreIs(C12_Expected(p)))

\* a purchase of two items of the same raw material has gone through
C12_Witness ==
    \E p \in Procs :
        /\ IsOp(p, "purchases") /\ pc[p] = "done"
        /\ Len(req[p].items) = 2
        /\ req[p].items[1].code = "P" /\ req[p].items[2].code = "P"
        /\ getInv(inv, RAW_WH, "P") = getInv(snap.inv, RAW_WH, "P") + 20

(***************************************************************************)
(* C13. The alert evaluator's output holds a breach record for a rule      *)
(* (warehouseCode, productCode, minQty) if and only if the balance of the  *)
(* pair, 0 when it has no balance row, is strictly below minQty; the       *)
(* records come in rule order and carry the current and min quantities.    *)
(***************************************************************************)
RECURSIVE C13_Breaches(_, _)
\* the breaches of rules k, k+1, ... over the balances i, in rule order
C13_Breaches(i, k) ==
    IF k > Len(AlertRules) THEN << >>
    ELSE LET r == AlertRules[k]
             qty == IF <<r.warehouseCode, r.productCode>> \in DOMAIN i
                    THEN i[<<r.warehouseCode, r.productCode>>] ELSE 0
         IN  (IF qty < r.minQty
              THEN << [product |-> r.productCode, current |-> qty, min |-> r.minQty] >>
              ELSE << >>)
             \o C13_Breaches(i, k + 1)

C13_AlertsAreTheBreaches ==
    \A p \in Procs :
        (IsOp(p, "alerts") /\ pc[p] = "done")
        => [k \in DOMAIN resp[p].alerts |->
               [product |-> resp[p].alerts[k].product,
                current |-> resp[p].alerts[k].current,
                min |-> resp[p].alerts[k].min]]
           = C13_Breaches(inv, 1)

\* three rules are reported while a balance equal to its minimum is not
C13_Witness ==
    \E p \in Procs :
        /\ IsOp(p, "alerts") /\ pc[p] = "done"
        /\ Len(resp[p].alerts) = 3
        /\ getInv(inv, GAL_WH, GallonCode(10)) = SeedGallonQty

(***************************************************************************)
(* C14. The stock summary and the alert evaluator leave the ledger, every  *)
(* balance and the catalog as they are, and the summary's output is fixed  *)
(* by the balance rows alone: raw kg by code, empty gallons by size, and   *)
(* one object per family with a finished-goods row holding its liters and  *)
(* its pack counts by size.  Two summary calls with no write between them  *)
(* therefore return identical output.                                      *)
(***************************************************************************)
C14_SummaryOf(o) ==
    /\ DOMAIN o.rawKg = {c \in {"P", "S"} : <<"RAW_WH", c>> \in DOMAIN inv}
    /\ \A c \in DOMAIN o.rawKg : o.rawKg[c] = inv[<<"RAW_WH", c>>]
    /\ DOMAIN o.gallonsEmpty = {5, 10, 20}
    /\ \A s \in {5, 10, 20} :
          o.gallonsEmpty[s] = getInv(inv, "GAL_WH", "GALLON_" \o ToString(s))
    /\ {o.products[k].code : k \in DOMAIN o.products}
          = {f \in FamilyCodes :
                \/ <<"FG_WH", f \o "_LITERS">> \in DOMAIN inv
                \/ \E s \in {5, 10, 20} :
                      <<"FG_WH", f \o "_PACK_" \o ToString(s)>> \in DOMAIN inv}
    /\ \A j, k \in DOMAIN o.products : o.products[j].code = o.products[k].code => j = k
    /\ \A k \in DOMAIN o.products :
          /\ o.products[k].liters = getInv(inv, "FG_WH", o.products[k].code \o "_LITERS")
          /\ \A s \in {5, 10, 20} :
                o.products[k].pack[s]
                    = getInv(inv, "FG_WH", o.products[k].code \o "_PACK_" \o ToString(s))

C14_ReadersOnlyRead ==
    \A p \in Procs :
        /\ (req[p].op \in {"summary", "alerts"})
           => /\ StoreUntouched
              /\ warehouses = SeedWarehouses /\ products = SeedProducts
        /\ (IsOp(p, "summary") /\ pc[p] = "done") => C14_SummaryOf(resp[p].summary)

\* a summary has answered over a store that holds finished goods
C14_Witness ==
    \E p \in Procs :
        /\ IsOp(p, "summary") /\ pc[p] = "done"
        /\ Len(resp[p].summary.products) = 1
        /\ resp[p].summary.products[1].liters > 0

(***************************************************************************)
(* C15. Two overlapping sales of the same family and container size, over  *)
(* a packaged balance that covers either but not both, end as some serial  *)
(* order of the two would: they never both succeed against that balance,   *)
(* and the packaged and liquid balances never go below 0.                  *)
(***************************************************************************)
C15_SaleSucceeded(p) == IsOp(p, "sales") /\ pc[p] = "done" /\ resp[p].status = 200

C15_SalesSerialize ==
    /\ \A p, q \in Procs :
          (/\ p # q /\ C15_SaleSucceeded(p) /\ C15_SaleSucceeded(q)
           /\ req[p].productCode = req[q].productCode
           /\ req[p].gallonSize = req[q].gallonSize
           /\ availPack[p] = availPack[q])
          => req[p].count + req[q].count <= availPack[p]
    /\ \A k \in DOMAIN inv : k[1] = "FG_WH" => inv[k] >= 0

\* the stocked store is one the seeded system reaches, by two productions
StockedReached ==
    /\ \A p \in Procs : pc[p] = "idle"
    /\ inv = ApplyAll(SeedInv, StockedLedger)
    /\ ledger = StockedLedger

(***************************************************************************)
(* C16. Every Production, Sale or Purchase request whose handler has run   *)
(* to its end has returned to its caller a success payload (200) or a      *)
(* typed failure (400), also when a warehouse or product code does not     *)
(* resolve in the catalog.  A handler at its end takes no further step, so *)
(* a request that ends without either never gets one.                      *)
(***************************************************************************)
C16_EndsWithResponse ==
    \A p \in Procs :
        (req[p].op \in {"production", "sales", "purchases"} /\ pc[p] \in Ended)
        => resp[p].status \in {200, 400}

(***************************************************************************)
(* C17. The ledger is append-only: across every step the ledger before is  *)
(* a prefix of the ledger after, a step appends at most one entry, and an  *)
(* appended entry has the kind (PRODUCTION, SALE, PURCHASE) of the         *)
(* operation whose applyTx appended it.                                    *)
(***************************************************************************)
C17_KindOf(op) ==
    CASE op = "production" -> "PRODUCTION"
      [] op = "sales" -> "SALE"
      [] op = "purchases" -> "PURCHASE"
      [] OTHER -> "NONE"

C17_Step ==
    /\ Len(ledger') >= Len(ledger)
    /\ SubSeq(ledger', 1, Len(ledger)) = ledger
    /\ ledger' # ledger
       => /\ Len(ledger') = Len(ledger) + 1
          /\ \E p \in Procs :
                /\ pend[p] = NoTx /\ pend'[p] = ledger'[Len(ledger')]
                /\ ledger'[Len(ledger')].txType = C17_KindOf(req[p].op)

C17_AppendOnly == [][C17_Step]_vars

\* entries of two kinds, appended by different operations, are in the ledger
C17_Witness ==
    \E i, j \in DOMAIN ledger :
        /\ i < j
        /\ ledger[i].txType = "PRODUCTION"
        /\ ledger[j].txType = "SALE"

(***************************************************************************)
(* C18. With one request at a time, from finished-goods balances of 0,     *)
(* whenever no request is in flight the liquid balance of every family is  *)
(* exactly 5 x packaged[5] + 10 x packaged[10] + 20 x packaged[20], also   *)
(* after sales of different container sizes.                               *)
(***************************************************************************)
C18_Quiet == \A p \in Procs : pc[p] \in {"idle", "done", "rejected", "threw"}

C18_Packaged(f, size) == getInv(inv, "FG_WH", f \o "_PACK_" \o ToString(size))

C18_Lockstep ==
    C18_Quiet
    => \A f \in FamilyCodes :
          getInv(inv, "FG_WH", f \o "_LITERS")
             = 5 * C18_Packaged(f, 5) + 10 * C18_Packaged(f, 10) + 20 * C18_Packaged(f, 20)

\* a 5-liter and a 10-liter pack have both been sold, one sale after the other
C18_Witness ==
    /\ C18_Quiet
    /\ \E i, j \in DOMAIN ledger :
          /\ ledger[i].txType = "SALE" /\ ledger[i].productId = "TP_PACK_5"
          /\ ledger[j].txType = "SALE" /\ ledger[j].productId = "TP_PACK_10"

(***************************************************************************)
(* C19. No update is lost when requests overlap: in every state with no    *)
(* request in flight, each (warehouse, product) balance is its balance in  *)
(* the initial state plus the sum of the deltas of the ledger entries      *)
(* appended for that pair since.                                           *)
(***************************************************************************)
C19_NoneInFlight ==
    \A p \in Procs : pc[p] \in {"idle", "done", "rejected", "threw"} /\ pend[p] = NoTx

C19_NoLostUpdate ==
    C19_NoneInFlight
    => \A k \in Pairs \cup DOMAIN inv :
          getInv(inv, k[1], k[2]) = getInv(SeedInv, k[1], k[2]) + LedgerSum(ledger, k[1], k[2])

\* two purchases of P and GALLON_5 have run interleaved, entry by entry, to their end
C19_Witness ==
    /\ \A p \in Procs : IsOp(p, "purchases") /\ pc[p] = "done" /\ resp[p].status = 200
    /\ Len(ledger) = 4
    /\ ledger[1].productId = "P" /\ ledger[2].productId = "P"
    /\ ledger[3].productId = "GALLON_5" /\ ledger[4].productId = "GALLON_5"
    /\ getInv(inv, "RAW_WH", "P") = getInv(SeedInv, "RAW_WH", "P") + 20

====
